---- MODULE Spec2Model ----
(***************************************************************************)
(* The Transform section of the immunization ETL notebook (src/etl.py):    *)
(* header renaming, count coercion, percentage rescaling, interval         *)
(* splitting and vaccine grouping, as a state machine over one DataFrame.  *)
(*                                                                         *)
(* A string is a sequence of one-character strings.  A cell is None (SQL   *)
(* NULL) or Some(v).  A decimal(4,1) value is held as its number of tenths *)
(* (87.3 is 873); a fractional coverage is held as its number of           *)
(* ten-thousandths (0.873 is 8730).                                        *)
(***************************************************************************)
EXTENDS Integers, Sequences, FiniteSets, TLC

VARIABLES
    df,             \* the notebook's variable df
    input,          \* the DataFrame as loaded (lines 39-43), kept for reference
    caseSensitive,  \* the session's spark.sql.caseSensitive
    checksDuplicates,  \* whether the engine's withColumnRenamed checks its result
                    \* for duplicate names (Spark 3.4 and later; no version is pinned)
    rename_cols,    \* the notebook's variable rename_cols (line 169)
    plan,           \* the Transform cells still to run, in order
    pc              \* where the run is: rename_cols, rename, transform, done, error

vars == <<df, input, caseSensitive, checksDuplicates, rename_cols, plan, pc>>

(***************************************************************************)
(* Bounds of the explored inputs.                                          *)
(***************************************************************************)
MaxHdrLen == 3
MaxCountLen == 3
MaxCILen == 5
MaxVacTokens == 3
MaxPctFine == 120
MaxExtraCols == 1
MaxExtraRows == 1

(***************************************************************************)
(* Characters and strings.                                                 *)
(***************************************************************************)
\* The characters of the model are the printable ones of Latin-1 (U+0020 to
\* U+00FF) and the blanks TAB, LF, FF and CR.
\* The characters str.lower() changes and, position by position, what it
\* changes them to.
UpperSeq == <<"A", "B", "C", "D", "E", "F", "G", "H", "I", "J", "K", "L", "M",
              "N", "O", "P", "Q", "R", "S", "T", "U", "V", "W", "X", "Y", "Z",
              "À", "Á", "Â", "Ã", "Ä", "Å", "Æ", "Ç", "È", "É", "Ê", "Ë", "Ì",
              "Í", "Î", "Ï", "Ð", "Ñ", "Ò", "Ó", "Ô", "Õ", "Ö", "Ø", "Ù", "Ú",
              "Û", "Ü", "Ý", "Þ">>
LowerSeq == <<"a", "b", "c", "d", "e", "f", "g", "h", "i", "j", "k", "l", "m",
              "n", "o", "p", "q", "r", "s", "t", "u", "v", "w", "x", "y", "z",
              "à", "á", "â", "ã", "ä", "å", "æ", "ç", "è", "é", "ê", "ë", "ì",
              "í", "î", "ï", "ð", "ñ", "ò", "ó", "ô", "õ", "ö", "ø", "ù", "ú",
              "û", "ü", "ý", "þ">>
\* Letters and numbers str.lower() leaves alone.
CaselessSeq == <<"ª", "²", "³", "µ", "¹", "º", "¼", "½", "¾", "ß", "ÿ">>
DigitSeq == <<"0", "1", "2", "3", "4", "5", "6", "7", "8", "9">>

Range(s) == {s[k] : k \in DOMAIN s}

UpperSet == Range(UpperSeq)
DigitSet == Range(DigitSeq)
\* The regular expression class \w of a str pattern: the letters and
\* numbers of Unicode and the underscore.
WordChars ==
    Range(UpperSeq) \cup Range(LowerSeq) \cup Range(CaselessSeq) \cup Range(DigitSeq) \cup {"_"}
LowerOf == [c \in UpperSet |-> LowerSeq[CHOOSE k \in DOMAIN UpperSeq : UpperSeq[k] = c]]
DigitValOf == [c \in DigitSet |-> (CHOOSE k \in DOMAIN DigitSeq : DigitSeq[k] = c) - 1]

IsUpper(c) == c \in UpperSet
IsDigit(c) == c \in DigitSet
IsWordChar(c) == c \in WordChars
DigitVal(c) == DigitValOf[c]

\* str.lower() on one character.
LowerChar(c) == IF IsUpper(c) THEN LowerOf[c] ELSE c

\* str.lower().
Lower(s) == [k \in DOMAIN s |-> LowerChar(s[k])]

RECURSIVE Concat(_)
Concat(ss) == IF ss = <<>> THEN <<>> ELSE Head(ss) \o Concat(Tail(ss))

\* All strings over alphabet of length at most n.
RECURSIVE StringsUpTo(_, _)
StringsUpTo(alphabet, n) ==
    IF n = 0 THEN {<<>>}
    ELSE LET shorter == StringsUpTo(alphabet, n - 1)
         IN  shorter \cup {<<c>> \o s : c \in alphabet, s \in {t \in shorter : Len(t) = n - 1}}

StartsWith(s, p) == Len(s) >= Len(p) /\ SubSeq(s, 1, Len(p)) = p

\* Whether pattern p occurs in s starting at position k.
OccursAt(s, p, k) == k >= 1 /\ k + Len(p) - 1 <= Len(s) /\ SubSeq(s, k, k + Len(p) - 1) = p

(***************************************************************************)
(* to_snake_case (src/etl.py lines 152-165).                               *)
(***************************************************************************)
\* re.sub(r'(\w)([%#])', r'\1 \2', col_name): matches are found left to
\* right and do not overlap; each is rewritten with a space in the middle.
RECURSIVE InsertSpaces(_)
InsertSpaces(s) ==
    IF s = <<>> THEN <<>>
    ELSE IF Len(s) >= 2 /\ IsWordChar(s[1]) /\ s[2] \in {"%", "#"}
         THEN <<s[1], " ", s[2]>> \o InsertSpaces(SubSeq(s, 3, Len(s)))
         ELSE <<s[1]>> \o InsertSpaces(Tail(s))

\* replace_special_chars(matchobj), called on each match of [#% ].
replace_special_chars(char) ==
    IF char = "#" THEN <<"n", "o">>
    ELSE IF char = "%" THEN <<"p", "c", "t">>
    ELSE IF char = " " THEN <<"_">>
    ELSE <<char>>

\* re.sub(r'[#% ]', replace_special_chars, col_name): one pass over the
\* input; the replacement text is appended to the result, never scanned.
RECURSIVE SubSpecial(_)
SubSpecial(s) ==
    IF s = <<>> THEN <<>>
    ELSE (IF s[1] \in {"#", "%", " "} THEN replace_special_chars(s[1]) ELSE <<s[1]>>)
         \o SubSpecial(Tail(s))

\* A variant that omits the first substitution (line 153).
to_snake_case_no_insert(col_name) == Lower(SubSpecial(col_name))

\* A variant whose second substitution replaces the first match only.
RECURSIVE SubSpecialOnce(_)
SubSpecialOnce(s) ==
    IF s = <<>> THEN <<>>
    ELSE IF s[1] \in {"#", "%", " "} THEN replace_special_chars(s[1]) \o Tail(s)
    ELSE <<s[1]>> \o SubSpecialOnce(Tail(s))
to_snake_case_first_only(col_name) == Lower(SubSpecialOnce(InsertSpaces(col_name)))

to_snake_case(col_name) == Lower(SubSpecial(InsertSpaces(col_name)))

(***************************************************************************)
(* Cells and the engine's value functions (non-ANSI casts: a failed cast   *)
(* is NULL, never an error).                                               *)
(***************************************************************************)
None == <<>>
Some(v) == <<v>>
IsNull(c) == c = <<>>
Val(c) == c[1]

MaxInt == 2147483647
MaxDecimal41 == 9999

\* The characters the casts from string trim: those up to U+0020.
BlankSet == {" ", "\t", "\n", "\f", "\r"}
IsBlank(c) == c \in BlankSet

\* Leading and trailing blanks removed (the casts from string trim first).
RECURSIVE TrimLeft(_)
TrimLeft(s) == IF s # <<>> /\ IsBlank(s[1]) THEN TrimLeft(Tail(s)) ELSE s
RECURSIVE TrimRight(_)
TrimRight(s) ==
    IF s # <<>> /\ IsBlank(s[Len(s)]) THEN TrimRight(SubSeq(s, 1, Len(s) - 1)) ELSE s
Trim(s) == TrimRight(TrimLeft(s))

AllDigits(s) == \A k \in DOMAIN s : IsDigit(s[k])

\* The digits of s accumulated left to right from acc; -1 once the value
\* exceeds limit.
RECURSIVE Accumulate(_, _, _)
Accumulate(s, acc, limit) ==
    IF s = <<>> THEN acc
    ELSE IF acc > (limit - DigitVal(s[1])) \div 10 THEN -1
    ELSE Accumulate(Tail(s), acc * 10 + DigitVal(s[1]), limit)

\* Position of the first "." of s, or Len(s) + 1.
FirstDot(s) ==
    IF \E k \in DOMAIN s : s[k] = "."
    THEN CHOOSE k \in DOMAIN s : s[k] = "." /\ \A j \in 1..(k - 1) : s[j] # "."
    ELSE Len(s) + 1

\* F.regexp_replace(c, ",", "") on a non-null string.
RECURSIVE RemoveCommas(_)
RemoveCommas(s) ==
    IF s = <<>> THEN <<>>
    ELSE (IF s[1] = "," THEN <<>> ELSE <<s[1]>>) \o RemoveCommas(Tail(s))

\* The least int, and the value below which one more digit cannot fit.
MinInt == -MaxInt - 1
StopValue == -(MaxInt \div 10)

\* The digits of s accumulated from acc as a negative number, the way the
\* cast keeps its running value; 1 once the value leaves the 32 bits.
RECURSIVE AccumulateNegative(_, _)
AccumulateNegative(s, acc) ==
    IF s = <<>> THEN acc
    ELSE IF acc < StopValue \/ acc * 10 < MinInt + DigitVal(s[1]) THEN 1
    ELSE AccumulateNegative(Tail(s), acc * 10 - DigitVal(s[1]))

\* .cast("int") on a non-null string: blanks trimmed, an optional sign,
\* digits, and an optional "." followed by digits only, which is dropped;
\* anything else, or a value outside 32 bits, is NULL.
CastInt(s) ==
    LET t == Trim(s)
        signed == t # <<>> /\ t[1] \in {"-", "+"}
        neg == t # <<>> /\ t[1] = "-"
        body == IF signed THEN Tail(t) ELSE t
        dot == FirstDot(body)
        whole == SubSeq(body, 1, dot - 1)
        frac == SubSeq(body, dot + 1, Len(body))
        result == IF AllDigits(whole) THEN AccumulateNegative(whole, 0) ELSE 1
    IN  IF body = <<>> \/ ~AllDigits(whole) \/ ~AllDigits(frac) \/ result > 0 THEN None
        ELSE IF neg THEN Some(result)
        ELSE IF result = MinInt THEN None
        ELSE Some(-result)

\* Position of the first "e" or "E" of s, or Len(s) + 1.
FirstExp(s) ==
    IF \E k \in DOMAIN s : s[k] \in {"e", "E"}
    THEN CHOOSE k \in DOMAIN s : s[k] \in {"e", "E"} /\ \A j \in 1..(k - 1) : s[j] \notin {"e", "E"}
    ELSE Len(s) + 1

\* s without its leading zeros.
RECURSIVE StripZeros(_)
StripZeros(s) == IF s # <<>> /\ s[1] = "0" THEN StripZeros(Tail(s)) ELSE s

\* The outcome of an expression that raises when the job evaluates it, in
\* the place of the cell it would have given.
Raises == <<"raises", "ArithmeticException">>
IsRaise(c) == Len(c) = 2

\* The most digits a decimal holds, and the largest n for which
\* BigInteger.pow computes ten to the n: it refuses, with an
\* ArithmeticException, when bitLength(10) * n / 32 is more than 2^26, that
\* is from n = 536870920.
MaxPrecision == 38
MaxTenPower == 536870919

\* The number of tenths of the number with the decimal digits digits (the
\* first not 0) times ten to the power e, rounded HALF_UP to one fractional
\* digit; -1 when it has more than three digits before the point.
TenthsOf(digits, e) ==
    LET n == Len(digits)
        p == n + e  \* digits before the point
        kept == [k \in 1..(p + 1) |-> IF k <= n THEN digits[k] ELSE "0"]
        up == IF p + 2 >= 1 /\ p + 2 <= n /\ DigitVal(digits[p + 2]) >= 5 THEN 1 ELSE 0
    IN  IF p > 3 THEN -1
        ELSE IF p < -1 THEN 0
        ELSE Accumulate(kept, 0, MaxDecimal41) + up

\* .cast("decimal(4, 1)") on a non-null string: blanks trimmed, then the
\* text java.math.BigDecimal reads: an optional sign, digits with an
\* optional "." (at least one digit in all), and an optional exponent ("e"
\* or "E", an optional sign, digits; the exponent and the resulting scale
\* within 32 bits).  A number with more than 38 digits before the point,
\* counted in 32 bits from its precision and scale, is given up as NULL;
\* the others are brought to scale 1, rounded HALF_UP, which raises when
\* the power of ten it takes is one BigInteger.pow refuses (a count of
\* digits that left the 32 bits, or more than MaxTenPower digits to drop
\* behind the first fractional one); a zero is
\* rescaled without it.  NULL when the text is no number or the rounded
\* value needs more than four digits.
CastDecimalFromString(s) ==
    LET t == Trim(s)
        signed == t # <<>> /\ t[1] \in {"-", "+"}
        neg == t # <<>> /\ t[1] = "-"
        body == IF signed THEN Tail(t) ELSE t
        epos == FirstExp(body)
        hasExp == epos <= Len(body)
        mantissa == SubSeq(body, 1, epos - 1)
        etext == SubSeq(body, epos + 1, Len(body))
        esigned == etext # <<>> /\ etext[1] \in {"-", "+"}
        eneg == etext # <<>> /\ etext[1] = "-"
        edigits == IF esigned THEN Tail(etext) ELSE etext
        dot == FirstDot(mantissa)
        whole == SubSeq(mantissa, 1, dot - 1)
        frac == SubSeq(mantissa, dot + 1, Len(mantissa))
        emag == IF AllDigits(edigits) THEN Accumulate(StripZeros(edigits), 0, MaxInt) ELSE -1
        expOk == ~hasExp \/ (edigits # <<>> /\ emag >= 0 /\ (eneg => emag <= MaxInt - Len(frac)))
    IN  IF ~AllDigits(whole) \/ ~AllDigits(frac) \/ Len(whole) + Len(frac) = 0 \/ ~expOk
        THEN None
        ELSE LET digits == StripZeros(whole \o frac)
                 zero == digits = <<>>
                 precision == IF zero THEN 1 ELSE Len(digits)
                 e == (IF eneg THEN -emag ELSE emag) - Len(frac)  \* minus the scale
                 wraps == e > MaxInt - precision
             IN  IF ~wraps /\ e > MaxPrecision - precision THEN None
                 ELSE IF zero THEN Some(0)
                 ELSE IF wraps \/ -e - 1 > MaxTenPower THEN Raises
                 ELSE LET tenths == TenthsOf(digits, e)
                      IN  IF tenths < 0 \/ tenths > MaxDecimal41 THEN None
                          ELSE Some(IF neg THEN -tenths ELSE tenths)

\* A variant that truncates where the cast rounds.
ScaleAndCast_truncating(n, tieUp) ==
    LET a == IF n < 0 THEN -n ELSE n
    IN  IF a \div 10 > MaxDecimal41 THEN None
        ELSE Some(IF n < 0 THEN -(a \div 10) ELSE a \div 10)

\* (pct_coverage * 100).cast("decimal (4, 1)") on a non-null fraction of n
\* ten-thousandths.  The product is a double; the cast rounds it HALF_UP to
\* tenths.  When n / 100 lies exactly half way between two tenths the
\* double product may fall on either side, so tieUp says which way it went.
ScaleAndCast(n, tieUp) ==
    LET a == IF n < 0 THEN -n ELSE n
        tenths == IF a % 10 = 5 THEN (a \div 10) + (IF tieUp THEN 1 ELSE 0)
                  ELSE (a + 5) \div 10
    IN  IF tenths > MaxDecimal41 THEN None
        ELSE Some(IF n < 0 THEN -tenths ELSE tenths)

\* F.split(col, pattern) on a non-null string, for a literal pattern: the
\* pieces between all occurrences of the pattern, found left to right.
RECURSIVE split(_, _)
split(s, pattern) ==
    IF \E k \in 1..Len(s) : OccursAt(s, pattern, k)
    THEN LET k == CHOOSE k \in 1..Len(s) :
                      OccursAt(s, pattern, k) /\ \A j \in 1..(k - 1) : ~OccursAt(s, pattern, j)
         IN  <<SubSeq(s, 1, k - 1)>> \o split(SubSeq(s, k + Len(pattern), Len(s)), pattern)
    ELSE <<s>>

\* .getItem(n) on an array, n counted from 0: NULL past the end.
getItem(arr, n) == IF n + 1 <= Len(arr) THEN Some(arr[n + 1]) ELSE None

(***************************************************************************)
(* The DataFrame: cols is the schema (column names in order), rows the     *)
(* rows, each a sequence of cells in column order.                         *)
(***************************************************************************)
no_immunized == <<"n", "o", "_", "i", "m", "m", "u", "n", "i", "z", "e", "d">>
no_eligible == <<"n", "o", "_", "e", "l", "i", "g", "i", "b", "l", "e">>
pct_coverage == <<"p", "c", "t", "_", "c", "o", "v", "e", "r", "a", "g", "e">>
ci_95_pct == <<"9", "5", "_", "p", "c", "t", "_", "c", "i">>
vaccine == <<"v", "a", "c", "c", "i", "n", "e">>
lower_95_pct_ci == <<"l", "o", "w", "e", "r", "_", "9", "5", "_", "p", "c", "t", "_", "c", "i">>
upper_95_pct_ci == <<"u", "p", "p", "e", "r", "_", "9", "5", "_", "p", "c", "t", "_", "c", "i">>
vaccine_group == <<"v", "a", "c", "c", "i", "n", "e", "_", "g", "r", "o", "u", "p">>
MEN_C == <<"M", "E", "N", "-", "C">>
Dash == <<"-">>
SpaceDashSpace == <<" ", "-", " ">>

num_cols == <<no_immunized, no_eligible>>

\* The session's name resolver: exact when spark.sql.caseSensitive is set,
\* otherwise (the default) names are compared character by character
\* ignoring case, which on the model's characters is equality of the
\* lower-cased characters.
Resolver(a, b) ==
    IF caseSensitive THEN a = b
    ELSE Len(a) = Len(b) /\ \A k \in DOMAIN a : LowerChar(a[k]) = LowerChar(b[k])

\* The positions of the columns of d that name resolves to.
Matches(d, name) == {k \in DOMAIN d.cols : Resolver(d.cols[k], name)}

\* A column reference by name analyses only when exactly one column bears
\* the name: none is an unresolved column, several an ambiguous reference.
Resolves(d, name) == Cardinality(Matches(d, name)) = 1

\* The cells of the one column name resolves to, one per row.
ColumnIndex(d, name) == CHOOSE k \in DOMAIN d.cols : Resolver(d.cols[k], name)

\* The outcome of a statement df = ...: the DataFrame assigned, or an
\* AnalysisException raised, which leaves df as it was.
Assigned(d) == [raised |-> FALSE, df |-> d]
Raised(d) == [raised |-> TRUE, df |-> d]

\* SchemaUtils.checkColumnNameDuplication: no two names are the same,
\* compared in lower case unless the session is case sensitive, which on
\* the model's characters is the resolver's comparison.
checkColumnNameDuplication(cols) ==
    \A a, b \in DOMAIN cols : a < b => ~Resolver(cols[a], cols[b])

\* A variant that takes its two names in the other order.
withColumnRenamed_swapped(d, existing, new) ==
    LET renamed == [k \in DOMAIN d.cols |->
                       IF Resolver(d.cols[k], new) THEN existing ELSE d.cols[k]]
    IN  IF checksDuplicates /\ ~checkColumnNameDuplication(renamed)
        THEN Raised(d)
        ELSE Assigned([d EXCEPT !.cols = renamed])

\* df.withColumnRenamed(existing, new): every column existing resolves to
\* is renamed; a name no column bears leaves the DataFrame as it is.  An
\* engine that checks the resulting names raises an AnalysisException when
\* two of them are the same.
withColumnRenamed(d, existing, new) ==
    LET renamed == [k \in DOMAIN d.cols |->
                       IF Resolver(d.cols[k], existing) THEN new ELSE d.cols[k]]
    IN  IF checksDuplicates /\ ~checkColumnNameDuplication(renamed)
        THEN Raised(d)
        ELSE Assigned([d EXCEPT !.cols = renamed])

\* df.withColumn(name, col) where col evaluates to vals[r] on row r: every
\* column bearing the name is replaced in place, else one is appended.
withColumn(d, name, vals) ==
    LET m == Matches(d, name)
    IN  IF m # {}
        THEN [cols |-> [k \in DOMAIN d.cols |-> IF k \in m THEN name ELSE d.cols[k]],
              rows |-> [r \in DOMAIN d.rows |->
                           [k \in DOMAIN d.cols |-> IF k \in m THEN vals[r] ELSE d.rows[r][k]]]]
        ELSE [cols |-> Append(d.cols, name),
              rows |-> [r \in DOMAIN d.rows |-> Append(d.rows[r], vals[r])]]

\* The subsequence of s at the positions not in gone.
RECURSIVE Without(_, _, _)
Without(s, gone, k) ==
    IF k > Len(s) THEN <<>>
    ELSE (IF k \in gone THEN <<>> ELSE <<s[k]>>) \o Without(s, gone, k + 1)

\* df.drop(name): every column bearing the name is removed.
drop(d, name) ==
    LET m == Matches(d, name)
    IN  [cols |-> Without(d.cols, m, 1),
         rows |-> [r \in DOMAIN d.rows |-> Without(d.rows[r], m, 1)]]

(***************************************************************************)
(* The rename loop (lines 173-174): zip(df.columns, rename_cols) is built  *)
(* from the columns of the DataFrame the loop starts with.                 *)
(***************************************************************************)
\* The turns k, k+1, ... of the loop on DataFrame d: what df holds when the
\* loop ends, by running out of pairs or by a turn that raises.
RECURSIVE RenameFrom(_, _, _, _)
RenameFrom(d, old, new, k) ==
    IF k > Len(old) \/ k > Len(new) THEN Assigned(d)
    ELSE LET turn == withColumnRenamed(d, old[k], new[k])
         IN  IF turn.raised THEN turn ELSE RenameFrom(turn.df, old, new, k + 1)

RenameColumns(d, new) == RenameFrom(d, d.cols, new, 1)

(***************************************************************************)
(* The column expressions of the Transform cells, on one cell.             *)
(***************************************************************************)
\* A variant that casts without removing the commas.
CoerceCell_keep_commas(c) == IF IsNull(c) THEN None ELSE CastInt(Val(c))

\* F.regexp_replace(c, ",", "").cast("int")  (line 189)
CoerceCell(c) == IF IsNull(c) THEN None ELSE CastInt(RemoveCommas(Val(c)))

\* (F.col("pct_coverage") * 100).cast("decimal (4, 1)")  (line 202)
RescaleCell(c, tieUp) == IF IsNull(c) THEN None ELSE ScaleAndCast(Val(c), tieUp)

\* A variant that splits at the first "-" only (a split limited to two
\* pieces).
BoundCell_first_dash_only(c, n) ==
    IF IsNull(c) THEN None
    ELSE LET s == Val(c)
             pieces == IF \E k \in DOMAIN s : s[k] = "-"
                       THEN LET k == CHOOSE k \in DOMAIN s :
                                         s[k] = "-" /\ \A j \in 1..(k - 1) : s[j] # "-"
                            IN  <<SubSeq(s, 1, k - 1), SubSeq(s, k + 1, Len(s))>>
                       ELSE <<s>>
             item == getItem(pieces, n)
         IN  IF IsNull(item) THEN None ELSE CastDecimalFromString(Val(item))

\* A variant that takes the two pieces in the other order.
BoundCell_swapped(c, n) ==
    IF IsNull(c) THEN None
    ELSE LET item == getItem(split(Val(c), Dash), 1 - n)
         IN  IF IsNull(item) THEN None ELSE CastDecimalFromString(Val(item))

\* F.split("95_pct_ci", "-").getItem(n).cast("decimal(4, 1)")  (lines 217-218)
BoundCell(c, n) ==
    IF IsNull(c) THEN None
    ELSE LET item == getItem(split(Val(c), Dash), n)
         IN  IF IsNull(item) THEN None ELSE CastDecimalFromString(Val(item))

\* F.split(F.col("vaccine"), " - ").getItem(0)  (line 236)
FirstSegmentCell(c) == IF IsNull(c) THEN None ELSE getItem(split(Val(c), SpaceDashSpace), 0)

\* A variant without the MEN-C adjustment.
OverrideCell_none(c) == c

\* F.when(F.col("vaccine_group").like("MEN-C%"), "MEN-C")
\*  .otherwise(F.col("vaccine_group"))  (line 240)
OverrideCell(c) == IF ~IsNull(c) /\ StartsWith(Val(c), MEN_C) THEN Some(MEN_C) ELSE c

(***************************************************************************)
(* The Transform cells on a DataFrame d whose referenced columns resolve.  *)
(***************************************************************************)
\* One turn of the loop of lines 188-189.
CoerceColumn(d, c) ==
    LET k == ColumnIndex(d, c)
    IN  withColumn(d, c, [r \in DOMAIN d.rows |-> CoerceCell(d.rows[r][k])])

\* Lines 186-189.
Coerce(d) == CoerceColumn(CoerceColumn(d, num_cols[1]), num_cols[2])

\* What the loop of lines 188-189 has assigned to df when a turn raises:
\* the result of the turns before it.
CoercePartial(d) ==
    IF Resolves(d, num_cols[1]) THEN CoerceColumn(d, num_cols[1]) ELSE d

\* The rows whose product lies half way between two tenths.
TieRows(d) ==
    IF Resolves(d, pct_coverage)
    THEN LET k == ColumnIndex(d, pct_coverage)
         IN  {r \in DOMAIN d.rows : ~IsNull(d.rows[r][k]) /\ Val(d.rows[r][k]) % 10 = 5}
    ELSE {}

\* Line 202; tieUps[r] is the side the product of row r fell on.
Rescale(d, tieUps) ==
    LET k == ColumnIndex(d, pct_coverage)
    IN  withColumn(d, pct_coverage,
                   [r \in DOMAIN d.rows |-> RescaleCell(d.rows[r][k], tieUps[r])])

\* Lines 217-219.
SeparateColumns(d) ==
    LET k == ColumnIndex(d, ci_95_pct)
        d1 == withColumn(d, lower_95_pct_ci,
                         [r \in DOMAIN d.rows |-> BoundCell(d.rows[r][k], 0)])
        k1 == ColumnIndex(d1, ci_95_pct)
        d2 == withColumn(d1, upper_95_pct_ci,
                         [r \in DOMAIN d1.rows |-> BoundCell(d1.rows[r][k1], 1)])
    IN  drop(d2, ci_95_pct)

\* A variant that starts from the renamed DataFrame instead of the current
\* one (a stale variable).
GroupVaccines_stale(d) ==
    LET d0 == RenameFrom(input, input.cols,
                         [j \in DOMAIN input.cols |-> to_snake_case(input.cols[j])], 1).df
        k == ColumnIndex(d0, vaccine)
        d1 == withColumn(d0, vaccine_group,
                         [r \in DOMAIN d0.rows |-> FirstSegmentCell(d0.rows[r][k])])
        k1 == ColumnIndex(d1, vaccine_group)
    IN  withColumn(d1, vaccine_group,
                   [r \in DOMAIN d1.rows |-> OverrideCell(d1.rows[r][k1])])

\* Line 236.
FirstSegments(d) ==
    LET k == ColumnIndex(d, vaccine)
    IN  withColumn(d, vaccine_group,
                   [r \in DOMAIN d.rows |-> FirstSegmentCell(d.rows[r][k])])

\* Lines 236-240.
GroupVaccines(d) ==
    LET d1 == FirstSegments(d)
        k1 == ColumnIndex(d1, vaccine_group)
    IN  withColumn(d1, vaccine_group,
                   [r \in DOMAIN d1.rows |-> OverrideCell(d1.rows[r][k1])])

\* What the cell has assigned to df when one of its two statements raises:
\* the result of line 236 when it is line 240 that raises.
GroupPartial(d) == IF Resolves(d, vaccine) THEN FirstSegments(d) ELSE d

(***************************************************************************)
(* The DataFrames the run starts from.                                     *)
(***************************************************************************)
ExampleHeader ==
    << <<"Y", "e", "a", "r">>,
       <<"Z", "o", "n", "e">>,
       <<"V", "a", "c", "c", "i", "n", "e">>,
       <<"#", " ", "E", "l", "i", "g", "i", "b", "l", "e">>,
       <<"#", " ", "I", "m", "m", "u", "n", "i", "z", "e", "d">>,
       <<"%", " ", "C", "o", "v", "e", "r", "a", "g", "e">>,
       <<"9", "5", "%", " ", "C", "I">> >>

Central == <<"C", "e", "n", "t", "r", "a", "l">>
Western == <<"W", "e", "s", "t", "e", "r", "n">>
HBV == <<"H", "B", "V">>
HBV_Dose_1 == <<"H", "B", "V", " ", "-", " ", "D", "o", "s", "e", " ", "1">>
MEN_C_ACYW135 == <<"M", "E", "N", "-", "C", "-", "A", "C", "Y", "W", "1", "3", "5">>
MEN_C_Dose_2 == <<"M", "E", "N", "-", "C", " ", "-", " ", "D", "o", "s", "e", " ", "2">>

\* The row of the end-to-end scenario with five of its cells replaced.
Row1(vac, elig, imm, pct, ci) == <<Some(2018), Some(Central), vac, elig, imm, pct, ci>>

ExampleRow ==
    Row1(Some(HBV_Dose_1), Some(<<"1", ",", "2", "0", "0">>), Some(<<"1", ",", "0", "5", "0">>),
         Some(8750), Some(<<"8", "2", ".", "0", "-", "9", "2", ".", "0">>))

\* Further rows of the loaded file.
SampleRow(k) ==
    IF k % 2 = 1
    THEN <<Some(2018 + k), Some(Western), Some(MEN_C_ACYW135), Some(<<"a", "b", "c">>),
           Some(<<"1", ",", "2", "3", "4">>), None, Some(<<"8", "0", ".", "0">>)>>
    ELSE <<Some(2018 + k), Some(Central), Some(MEN_C_Dose_2), Some(<<"2", ",", "0", "0", "0">>),
           Some(<<"1", "9", "0", "0">>), Some(8730),
           Some(<<"8", "0", ".", "0", "-", "9", "5", ".", "5">>)>>

HdrAlphabet == {"A", "_", "#", "%", " ", "-"}
\* Headers with letters outside ASCII.
HdrExamples == { <<"É">>, <<"é", "%">>, <<"Ñ", "#">>, <<"ß", "%", "É">> }
HdrStrings == (StringsUpTo(HdrAlphabet, MaxHdrLen) \ {<<>>}) \cup HdrExamples

\* Names a file may give a further column, among them names that collide
\* with a canonical name once renamed.
VariantNames ==
    { <<"N", "o", " ", "E", "l", "i", "g", "i", "b", "l", "e">>,
      no_eligible,
      <<"V", "a", "c", "c", "i", "n", "e", " ", "G", "r", "o", "u", "p">>,
      vaccine_group,
      <<"9", "5", " ", "%", " ", "c", "i">>,
      lower_95_pct_ci,
      <<"N", "o", "t", "e", "s">> }

\* Two further columns that both end up named vaccine_group.
GroupColumnPairs ==
    { << <<"V", "a", "c", "c", "i", "n", "e", " ", "G", "r", "o", "u", "p">>, vaccine_group >>,
      << vaccine_group, <<"V", "a", "c", "c", "i", "n", "e", " ", "G", "r", "o", "u", "p">> >> }

CountAlphabet == {"1", ",", ".", "-", " "}
CountExamples == { <<"1", ",", "2", "3", "4">>, <<"a", "b", "c">>,
                   <<"1", ",", "2", "0", "0">>, <<"1", ",", "0", "5", "0">>,
                   <<"-", "2", ",", "1", "4", "7", ",", "4", "8", "3", ",", "6", "4", "8">>,
                   <<"2", ",", "1", "4", "7", ",", "4", "8", "3", ",", "6", "4", "8">>,
                   <<"\t", "1", "2", "\n">>, <<"1", "a">>, <<"+", "1", ".", "9">> }
CountCells == {None} \cup {Some(t) : t \in StringsUpTo(CountAlphabet, MaxCountLen) \cup CountExamples}

\* Fractions in ten-thousandths: a fine run from 0, and values around 1,
\* above 1, below 0, and around the largest and the least value
\* decimal(4,1) holds.
PctExamples == {8730, 8750, 10000, 10005, 15000, 99940, 99994, 99995, 99996, 100000, 123456,
                -5, -45, -8730, -15000, -99994, -99995, -99996, -100000}
PctCells == {None} \cup {Some(n) : n \in (0..MaxPctFine) \cup PctExamples}
\* The fraction of the further rows: absent, or one whose product is a tie.
FurtherPctCells == {None, Some(45)}

CIAlphabet == {"1", "5", ".", "-"}
CIExamples == { <<"8", "0", ".", "0", "-", "9", "5", ".", "5">>, <<"8", "0", ".", "0">>,
                <<"8", "2", ".", "0", "-", "9", "2", ".", "0">>,
                <<"9", "5", ".", "5", "-", "8", "0", ".", "0">>,
                <<" ", "1", ".", "5", " ", "-", " ", "5", " ">>, <<"1", " ", "5", "-", "5">>,
                <<"9", "9", "9", ".", "9", "5", "-", "9", "9", "9", ".", "9", "4">>,
                <<"1", "e", "1", "-", "5">>, <<"1", "E", "-", "1", "-", "5", "e", "+", "2">>,
                <<"\t", "1", ".", "5", "-", "2", "\n">>,
                <<"0", "e", "9", "9", "-", "5">>,
                <<"8", "0", ".", "0", "-", "1", "e", "2", "1", "4", "7", "4", "8", "3", "6", "4", "7">> }
CICells == {None} \cup {Some(t) : t \in StringsUpTo(CIAlphabet, MaxCILen) \cup CIExamples}

VacTokens == {HBV, MEN_C, SpaceDashSpace, Dash, <<" ">>, <<"m", "e", "n", "-", "c">>}
RECURSIVE TokenStrings(_)
TokenStrings(n) ==
    IF n = 0 THEN {<<>>}
    ELSE TokenStrings(n - 1) \cup {t \o u : t \in TokenStrings(n - 1), u \in VacTokens}
VaccineCells ==
    {None} \cup {Some(t) : t \in TokenStrings(MaxVacTokens) \cup {HBV_Dose_1, MEN_C_ACYW135, MEN_C_Dose_2}}

\* Sequences of pairwise different elements of S, of length at most n.
RECURSIVE DistinctSeqs(_, _)
DistinctSeqs(S, n) ==
    IF n = 0 THEN {<<>>}
    ELSE LET shorter == DistinctSeqs(S, n - 1)
         IN  shorter \cup UNION {{Append(q, x) : x \in S \ Range(q)} :
                                     q \in {t \in shorter : Len(t) = n - 1}}

\* row1 and nExtra further rows.
Rows(row1, nExtra) == <<row1>> \o [k \in 1..nExtra |-> SampleRow(k)]

\* row1 and nExtra further rows whose fraction is pct.
RowsWithPct(row1, nExtra, pct) ==
    <<row1>> \o [k \in 1..nExtra |-> [SampleRow(k) EXCEPT ![6] = pct]]

\* The loaded DataFrame: the example header without the columns in dropped
\* and with the columns extras appended, and the given rows.
Loaded(dropped, extras, rows) ==
    [cols |-> Without(ExampleHeader, dropped, 1) \o extras,
     rows |-> [r \in DOMAIN rows |->
                  Without(rows[r], dropped, 1) \o [k \in DOMAIN extras |-> Some(<<"x">>)]]]

\* The loader hands over columns whose names differ under the resolver.
DistinctNames(cols, cs) ==
    \A a, b \in DOMAIN cols :
        a # b => IF cs THEN cols[a] # cols[b] ELSE Lower(cols[a]) # Lower(cols[b])

\* The cells of the Transform section in notebook order.
TransformCells == <<"coerce", "rescale", "separate", "group">>

\* The run starts at the rename cells with DataFrame d loaded.
Start(d, flags, checks, plans) ==
    /\ input = d
    /\ caseSensitive \in flags
    /\ checksDuplicates \in checks
    /\ DistinctNames(d.cols, caseSensitive)
    /\ df = d
    /\ rename_cols = <<>>
    /\ plan \in plans
    /\ pc = "rename_cols"

\* Schemas: a column missing, further columns present; both resolvers,
\* and engines with and without the check of renamed columns.
SchemaInit(plans) ==
    \E dropped \in {{}} \cup {{k} : k \in DOMAIN ExampleHeader},
       extras \in DistinctSeqs(VariantNames, MaxExtraCols) \cup GroupColumnPairs,
       n \in 0..MaxExtraRows :
        Start(Loaded(dropped, extras, Rows(ExampleRow, n)), BOOLEAN, BOOLEAN, plans)

\* Headers: one further column of any name over the header alphabet.
HeaderInit(plans) ==
    \E h \in HdrStrings :
        Start(Loaded({}, <<h>>, Rows(ExampleRow, 0)), BOOLEAN, BOOLEAN, plans)

\* Cell values: the example header (the default resolver and a checking
\* engine; the header, whose names never meet, is the same in every run),
\* one cell of the first row varied, the further rows present.
EligibleInit(plans) ==
    \E c \in CountCells, n \in {MaxExtraRows} :
        Start(Loaded({}, <<>>, Rows(Row1(ExampleRow[3], c, ExampleRow[5], ExampleRow[6], ExampleRow[7]), n)),
              {FALSE}, {TRUE}, plans)

ImmunizedInit(plans) ==
    \E c \in CountCells, n \in {MaxExtraRows} :
        Start(Loaded({}, <<>>, Rows(Row1(ExampleRow[3], ExampleRow[4], c, ExampleRow[6], ExampleRow[7]), n)),
              {FALSE}, {TRUE}, plans)

CoverageInit(plans) ==
    \E c \in PctCells, t \in FurtherPctCells, n \in {MaxExtraRows} :
        Start(Loaded({}, <<>>, RowsWithPct(Row1(ExampleRow[3], ExampleRow[4], ExampleRow[5], c, ExampleRow[7]), n, t)),
              {FALSE}, {TRUE}, plans)

IntervalInit(plans) ==
    \E c \in CICells, n \in {MaxExtraRows} :
        Start(Loaded({}, <<>>, Rows(Row1(ExampleRow[3], ExampleRow[4], ExampleRow[5], ExampleRow[6], c), n)),
              {FALSE}, {TRUE}, plans)

VaccineInit(plans) ==
    \E c \in VaccineCells, n \in {MaxExtraRows} :
        Start(Loaded({}, <<>>, Rows(Row1(c, ExampleRow[4], ExampleRow[5], ExampleRow[6], ExampleRow[7]), n)),
              {FALSE}, {TRUE}, plans)

Init ==
    \/ SchemaInit({TransformCells})
    \/ HeaderInit({TransformCells})
    \/ EligibleInit({TransformCells})
    \/ ImmunizedInit({TransformCells})
    \/ CoverageInit({TransformCells})
    \/ IntervalInit({TransformCells})
    \/ VaccineInit({TransformCells})

(***************************************************************************)
(* The cells of the notebook.                                              *)
(***************************************************************************)
\* Line 169: rename_cols = [to_snake_case(c) for c in df.columns]
ComputeRenameCols ==
    /\ pc = "rename_cols"
    /\ rename_cols' = [k \in DOMAIN df.cols |-> to_snake_case(df.cols[k])]
    /\ pc' = "rename"
    /\ UNCHANGED <<df, input, caseSensitive, checksDuplicates, plan>>

\* Lines 173-174: the rename loop.  A turn that raises ends the run, df
\* being what the turns before it assigned.
Rename ==
    /\ pc = "rename"
    /\ LET loop == RenameColumns(df, rename_cols)
       IN  /\ df' = loop.df
           /\ pc' = IF loop.raised THEN "error"
                    ELSE IF plan = <<>> THEN "done" ELSE "transform"
    /\ UNCHANGED <<input, caseSensitive, checksDuplicates, rename_cols, plan>>

\* df.display() (lines 191, 203, 221, 242) runs the job that evaluates the
\* cells of d; it raises when a cell does.
Displays(d) == \A r \in DOMAIN d.rows : \A k \in DOMAIN d.rows[r] : ~IsRaise(d.rows[r][k])

\* A Transform cell: it runs when the columns it names resolve and raises
\* an AnalysisException, which ends the run, when one does not; df is then
\* what the statements before the failing one assigned to it.  The cell
\* ends by displaying df, which ends the run when the job raises.
RunCell(name, resolves, result, partial) ==
    /\ pc = "transform"
    /\ plan # <<>>
    /\ Head(plan) = name
    /\ plan' = Tail(plan)
    /\ IF resolves
       THEN df' = result /\ pc' = (IF ~Displays(result) THEN "error"
                                   ELSE IF Tail(plan) = <<>> THEN "done" ELSE "transform")
       ELSE df' = partial /\ pc' = "error"
    /\ UNCHANGED <<input, caseSensitive, checksDuplicates, rename_cols>>

CanCoerce(d) == Resolves(d, num_cols[1]) /\ Resolves(d, num_cols[2])
CanRescale(d) == Resolves(d, pct_coverage)
CanSeparate(d) == Resolves(d, ci_95_pct)
\* Line 240 reads vaccine_group back from the result of line 236.
CanGroup(d) == Resolves(d, vaccine) /\ Cardinality(Matches(d, vaccine_group)) <= 1

\* Lines 186-189.
CoerceNumbers == RunCell("coerce", CanCoerce(df), Coerce(df), CoercePartial(df))

\* Line 202.
RescalePercentage ==
    \E ups \in SUBSET TieRows(df) :
        RunCell("rescale", CanRescale(df), Rescale(df, [r \in DOMAIN df.rows |-> r \in ups]), df)

\* Lines 217-219.
Separate == RunCell("separate", CanSeparate(df), SeparateColumns(df), df)

\* Lines 236-240.
Group == RunCell("group", CanGroup(df), GroupVaccines(df), GroupPartial(df))

Next == ComputeRenameCols \/ Rename \/ CoerceNumbers \/ RescalePercentage \/ Separate \/ Group

Spec == Init /\ [][Next]_vars

(***************************************************************************)
(* Where a run of the notebook order stands.                               *)
(***************************************************************************)
\* The state right after Transform cell c ran without error.
JustRan(c) ==
    /\ pc \in {"transform", "done"}
    /\ \E k \in DOMAIN TransformCells :
          TransformCells[k] = c /\ plan = SubSeq(TransformCells, k + 1, Len(TransformCells))

\* The state right after the rename loop.
JustRenamed == pc = "transform" /\ plan = TransformCells

\* The canonical names of the loaded columns, and the loaded DataFrame
\* under them.
CanonicalNames == [k \in DOMAIN input.cols |-> to_snake_case(input.cols[k])]
RenamedInput == [cols |-> CanonicalNames, rows |-> input.rows]

(***************************************************************************)
(* Header canonicalization.                                                *)
(***************************************************************************)
\* What the claim says one character of a header becomes: its token, in
\* lower case, behind a "_" when it is a "#" or "%" right after a word
\* character.
ImageOf(h, k) ==
    (IF h[k] \in {"#", "%"} /\ k > 1 /\ IsWordChar(h[k - 1]) THEN <<"_">> ELSE <<>>)
    \o (CASE h[k] = "#" -> <<"n", "o">>
          [] h[k] = "%" -> <<"p", "c", "t">>
          [] h[k] = " " -> <<"_">>
          [] OTHER -> <<LowerChar(h[k])>>)
Canonicalized(h) == Concat([k \in DOMAIN h |-> ImageOf(h, k)])

HasSpecial(h) == \E k \in DOMAIN h : h[k] \in {"#", "%", " "}

\* C1: when rename_cols has been computed, every loaded header h has the name the
\* claim describes: a "_" where a space is or is inserted (between a word
\* character and a following "#" or "%"), "no" for "#", "pct" for "%", all
\* else unchanged but for lower case; "% Coverage", "# Eligible" and
\* "95% CI" become pct_coverage, no_eligible and 95_pct_ci, and a header
\* with no "#", "%" or space is lower-cased only.
C1_Canonicalize ==
    pc = "rename" =>
        \A k \in DOMAIN input.cols :
            LET h == input.cols[k]
            IN  /\ rename_cols[k] = Canonicalized(h)
                /\ h = ExampleHeader[6] => rename_cols[k] = pct_coverage
                /\ h = ExampleHeader[4] => rename_cols[k] = no_eligible
                /\ h = ExampleHeader[7] => rename_cols[k] = ci_95_pct
                /\ ~HasSpecial(h) => rename_cols[k] = [j \in DOMAIN h |-> LowerChar(h[j])]

C1_Witness ==
    /\ pc = "rename"
    /\ \E k \in DOMAIN input.cols :
          input.cols[k] = ExampleHeader[7] /\ rename_cols[k] = ci_95_pct
    /\ \E k \in DOMAIN input.cols :
          input.cols[k] = <<"_", "#", "%">>
              /\ rename_cols[k] = <<"_", "_", "n", "o", "p", "c", "t">>

\* C2: canonicalizing a canonical name changes nothing: for every loaded
\* header h, to_snake_case(to_snake_case(h)) = to_snake_case(h).
C2_Idempotent ==
    pc = "rename" =>
        \A k \in DOMAIN input.cols :
            /\ rename_cols[k] = to_snake_case(input.cols[k])
            /\ to_snake_case(rename_cols[k]) = rename_cols[k]

C2_Witness ==
    /\ pc = "rename"
    /\ \E k \in DOMAIN input.cols :
          /\ input.cols[k] = <<"A", "%", "#">>
          /\ rename_cols[k] # input.cols[k]
          /\ to_snake_case(rename_cols[k]) = rename_cols[k]

(***************************************************************************)
(* The rename loop.                                                        *)
(***************************************************************************)
\* The rename cell has run, to its end or to a turn that raised.
RenameRan == plan = TransformCells /\ pc \in {"transform", "error"}

\* The DataFrame a loop that renames column after column has reached when
\* turn n starts: the columns before the n-th under their new names (those
\* of rename_cols, the canonical ones), the others under their loaded
\* names.
BeforeTurn(n) ==
    [cols |-> [k \in DOMAIN input.cols |->
                  IF k < n THEN rename_cols[k] ELSE input.cols[k]],
     rows |-> input.rows]

\* The columns turn n renames.
Touched(n) == Matches(BeforeTurn(n), input.cols[n])

\* Two loaded columns have one canonical name.
NamesMeet ==
    \E a, b \in DOMAIN input.cols :
        a # b /\ Resolver(rename_cols[a], rename_cols[b])

\* Turn n leaves two columns under one name: the canonical name of column
\* n is that of an earlier column or the loaded name of a later one.
Clashes(n) ==
    \E j \in DOMAIN input.cols :
        \/ j < n /\ Resolver(rename_cols[j], rename_cols[n])
        \/ j > n /\ Resolver(input.cols[j], rename_cols[n])

\* The first turn that clashes, one past the last turn when none does.
FirstClash ==
    IF \E n \in DOMAIN input.cols : Clashes(n)
    THEN CHOOSE n \in DOMAIN input.cols :
             Clashes(n) /\ \A j \in 1..(n - 1) : ~Clashes(j)
    ELSE Len(input.cols) + 1

\* C10 as claimed: the loop ends with the loaded columns in the loaded
\* order, the k-th named to_snake_case of its loaded name, and the loaded
\* rows; every turn renames its own column and no other.
C10_LoopAsSimultaneous ==
    RenameRan =>
        /\ rename_cols = CanonicalNames
        /\ pc = "transform"
        /\ Len(df.cols) = Len(input.cols)
        /\ \A k \in DOMAIN input.cols : df.cols[k] = to_snake_case(input.cols[k])
        /\ df.rows = input.rows
        /\ \A n \in DOMAIN input.cols : Touched(n) = {n}

\* C10 amended: (a) when no two canonical names are the same, the loop ends
\* with the loaded columns in the loaded order, the k-th named to_snake_case
\* of its loaded name, and the loaded rows, every turn renaming its own
\* column and no other; (b) when two are the same and the engine does not
\* check renamed columns, the loop ends with that same schema, two columns
\* under one name, a turn renaming with its own column every earlier column
\* whose canonical name is the turn's loaded name; (c) when two are the
\* same and the engine checks, the loop raises at the first turn that
\* leaves two columns under one name, the columns before it renamed, the
\* others as loaded.
C10_RenameLoop ==
    RenameRan =>
        LET last == Len(input.cols)
            stop == IF checksDuplicates THEN FirstClash ELSE last + 1
        IN  /\ rename_cols = CanonicalNames
            /\ NamesMeet <=> FirstClash <= last
            /\ pc = "error" <=> stop <= last
            /\ df = BeforeTurn(stop)
            /\ \A n \in 1..last :
                  LET turn == withColumnRenamed(BeforeTurn(n), input.cols[n], rename_cols[n])
                  IN  /\ n < stop => turn = Assigned(BeforeTurn(n + 1))
                      /\ n = stop => turn.raised
                      /\ n <= stop =>
                            Touched(n) = {n} \cup {j \in 1..(n - 1) :
                                                      Resolver(rename_cols[j], input.cols[n])}
                      /\ ~NamesMeet => Touched(n) = {n}
            /\ stop > last =>
                  /\ Len(df.cols) = last
                  /\ \A k \in 1..last : df.cols[k] = to_snake_case(input.cols[k])
                  /\ df.rows = input.rows

\* A loaded name with a "%" and a "#" among names that stay apart: the loop
\* has renamed its column and no other turn has touched it.
C10_Witness ==
    /\ JustRenamed
    /\ ~NamesMeet
    /\ \E k \in DOMAIN input.cols :
          /\ input.cols[k] = <<"A", "%", "#">>
          /\ df.cols[k] = <<"a", "_", "p", "c", "t", "n", "o">>
          /\ \A n \in DOMAIN input.cols : Touched(n) = {n}

(***************************************************************************)
(* Cell values.                                                            *)
(***************************************************************************)
\* The cell of row r in the column of d named name.
CellAt(d, r, name) == d.rows[r][CHOOSE k \in DOMAIN d.cols : d.cols[k] = name]

\* The loaded cell of row r in the column whose canonical name is name.
LoadedCell(r, name) == CellAt(RenamedInput, r, name)

NotComma(ch) == ch # ","

\* The decimal digits of -w for w <= 0, without leading zeros (none for 0).
RECURSIVE DigitsOfNegative(_)
DigitsOfNegative(w) ==
    IF w = 0 THEN <<>>
    ELSE LET d == (10 - (w % 10)) % 10
         IN  DigitsOfNegative((w + d) \div 10) \o <<DigitSeq[d + 1]>>

\* Whether the integer v is the one a sign and the digits ds spell.
Spells(v, neg, ds) ==
    /\ DigitsOfNegative(IF v > 0 THEN -v ELSE v) = StripZeros(ds)
    /\ v < 0 => neg
    /\ v > 0 => ~neg

\* Whether digit run a is at most digit run b of the same length.
DigitsLeq(a, b) ==
    \/ a = b
    \/ \E k \in DOMAIN a :
          DigitVal(a[k]) < DigitVal(b[k]) /\ \A j \in 1..(k - 1) : a[j] = b[j]

\* Whether the integer a sign and the digits ds spell fits in 32 bits.
FitsInt(neg, ds) ==
    LET m == StripZeros(ds)
        most == DigitsOfNegative(IF neg THEN MinInt ELSE -MaxInt)
    IN  Len(m) < Len(most) \/ (Len(m) = Len(most) /\ DigitsLeq(m, most))

\* The text of a count cell without its commas and the blanks around it.
CountText(c) == Trim(SelectSeq(Val(c), NotComma))

\* out is what the claim says count cell c becomes: the integer of a text
\* that is an optional sign and digits, NULL for any other text.
CountAsClaimed(c, out) ==
    IF IsNull(c) THEN IsNull(out)
    ELSE LET t == CountText(c)
             signed == t # <<>> /\ t[1] \in {"-", "+"}
             body == IF signed THEN Tail(t) ELSE t
         IN  IF body # <<>> /\ AllDigits(body)
             THEN ~IsNull(out) /\ Spells(Val(out), signed /\ t[1] = "-", body)
             ELSE IsNull(out)

\* out is what count cell c becomes under the amended claim: the integer of
\* the digits before the "." of a text that is an optional sign, digits and
\* an optional "." with digits, when it fits in 32 bits; NULL otherwise.
CountAsAmended(c, out) ==
    IF IsNull(c) THEN IsNull(out)
    ELSE LET t == CountText(c)
             signed == t # <<>> /\ t[1] \in {"-", "+"}
             neg == signed /\ t[1] = "-"
             body == IF signed THEN Tail(t) ELSE t
             dot == FirstDot(body)
             whole == SubSeq(body, 1, dot - 1)
             frac == SubSeq(body, dot + 1, Len(body))
         IN  IF body # <<>> /\ AllDigits(whole) /\ AllDigits(frac) /\ FitsInt(neg, whole)
             THEN ~IsNull(out) /\ Spells(Val(out), neg, whole)
             ELSE IsNull(out)

\* C5 as claimed: right after the coercion cell, no_immunized and
\* no_eligible hold the integer their loaded text spells once its commas
\* are removed, NULL when that text is no integer; the columns, their
\* order, every other cell and the number of rows are as before the cell.
C5_CoerceIntegersOnly ==
    JustRan("coerce") =>
        /\ df.cols = CanonicalNames
        /\ Len(df.rows) = Len(input.rows)
        /\ \A r \in DOMAIN input.rows : \A k \in DOMAIN input.cols :
              IF CanonicalNames[k] \in {no_immunized, no_eligible}
              THEN CountAsClaimed(input.rows[r][k], df.rows[r][k])
              ELSE df.rows[r][k] = input.rows[r][k]

\* C5 amended: right after the coercion cell, no_immunized and no_eligible
\* hold the integer their loaded text spells once its commas and the
\* blanks around it are removed, where the text is an optional sign,
\* digits and an optional "." with further digits, which are dropped
\* ("1,234" gives 1234, "1.1" gives 1, "." gives 0); NULL when the text is
\* not of that form ("abc") or the integer does not fit in 32 bits; the
\* columns, their order, every other cell and the number of rows are as
\* before the cell.
C5_CoerceTruncating ==
    JustRan("coerce") =>
        /\ df.cols = CanonicalNames
        /\ Len(df.rows) = Len(input.rows)
        /\ \A r \in DOMAIN input.rows : \A k \in DOMAIN input.cols :
              IF CanonicalNames[k] \in {no_immunized, no_eligible}
              THEN CountAsAmended(input.rows[r][k], df.rows[r][k])
              ELSE df.rows[r][k] = input.rows[r][k]
        /\ \A r \in DOMAIN input.rows : \A name \in {no_immunized, no_eligible} :
              /\ LoadedCell(r, name) = Some(<<"1", ",", "2", "3", "4">>)
                    => CellAt(df, r, name) = Some(1234)
              /\ LoadedCell(r, name) = Some(<<"a", "b", "c">>) => CellAt(df, r, name) = None

C5_Witness ==
    /\ JustRan("coerce")
    /\ \E r \in DOMAIN input.rows :
          /\ LoadedCell(r, no_immunized) = Some(<<"1", ",", "2", "3", "4">>)
          /\ CellAt(df, r, no_immunized) = Some(1234)
          /\ LoadedCell(r, no_eligible) = Some(<<"a", "b", "c">>)
          /\ CellAt(df, r, no_eligible) = None
    /\ \E r \in DOMAIN input.rows :
          /\ LoadedCell(r, no_eligible) = Some(<<"1", ".", "1">>)
          /\ CellAt(df, r, no_eligible) = Some(1)

\* Whether t tenths is a tenth nearest to n ten-thousandths times 100.
Nearest(t, n) == 10 * t - n \in -5..5

\* C6 as claimed: right after the rescaling cell every non-null fraction v
\* has become v x 100 to one fractional digit, also when v > 1, and NULL
\* has stayed NULL.
C6_RescaleAlways ==
    JustRan("rescale") =>
        \A r \in DOMAIN input.rows :
            LET c == LoadedCell(r, pct_coverage)
                out == CellAt(df, r, pct_coverage)
            IN  IF IsNull(c) THEN IsNull(out)
                ELSE ~IsNull(out) /\ Nearest(Val(out), Val(c))

\* The size of n.
Abs(n) == IF n < 0 THEN -n ELSE n

\* C6 amended: right after the rescaling cell a non-null fraction v, of
\* either sign, has become v x 100 rounded to one fractional digit when
\* that lies from -999.9 to 999.9, the range of decimal(4,1) (0.873 gives
\* 87.3, and a v > 1 within the range is rescaled like any other), and NULL
\* when it lies beyond (10 and -10 give NULL); NULL has stayed NULL.
C6_RescaleWithinRange ==
    JustRan("rescale") =>
        \A r \in DOMAIN input.rows :
            LET c == LoadedCell(r, pct_coverage)
                out == CellAt(df, r, pct_coverage)
            IN  /\ IsNull(c) => IsNull(out)
                /\ ~IsNull(c) /\ ~IsNull(out) =>
                      Nearest(Val(out), Val(c)) /\ Abs(Val(out)) <= MaxDecimal41
                /\ ~IsNull(c) /\ IsNull(out) => Abs(Val(c)) + 5 >= 10 * (MaxDecimal41 + 1)
                /\ c = Some(8730) => out = Some(873)
                /\ c = Some(15000) => out = Some(1500)
                /\ c = Some(-8730) => out = Some(-873)
                /\ c \in {Some(100000), Some(-100000)} => IsNull(out)

C6_Witness ==
    /\ JustRan("rescale")
    /\ \E r \in DOMAIN input.rows :
          LoadedCell(r, pct_coverage) = Some(-15000) /\ CellAt(df, r, pct_coverage) = Some(-1500)
    /\ \E r \in DOMAIN input.rows :
          IsNull(LoadedCell(r, pct_coverage)) /\ IsNull(CellAt(df, r, pct_coverage))

(***************************************************************************)
(* The interval bounds.                                                    *)
(***************************************************************************)
\* The position of the first "-" of s after position from, or Len(s) + 1.
NextDash(s, from) ==
    IF \E k \in (from + 1)..Len(s) : s[k] = "-"
    THEN CHOOSE k \in (from + 1)..Len(s) : s[k] = "-" /\ \A j \in (from + 1)..(k - 1) : s[j] # "-"
    ELSE Len(s) + 1

HasDash(s) == \E k \in DOMAIN s : s[k] = "-"

\* The text before the first "-", all the text after it, and the text
\* between it and the second "-".
BeforeFirstDash(s) == SubSeq(s, 1, NextDash(s, 0) - 1)
AfterFirstDash(s) == SubSeq(s, NextDash(s, 0) + 1, Len(s))
BetweenDashes(s) == SubSeq(s, NextDash(s, 0) + 1, NextDash(s, NextDash(s, 0)) - 1)

Interval_80_955 == <<"8", "0", ".", "0", "-", "9", "5", ".", "5">>
Interval_80 == <<"8", "0", ".", "0">>

\* C3 as claimed: right after the splitting cell the interval column is
\* gone, lower_95_pct_ci is the decimal of the text before the first "-"
\* and upper_95_pct_ci the decimal of all the text after the first "-",
\* NULL when there is no "-".
C3_SplitAtFirstDashOnly ==
    JustRan("separate") =>
        /\ \A k \in DOMAIN df.cols : df.cols[k] # ci_95_pct
        /\ \A r \in DOMAIN input.rows :
              LET c == LoadedCell(r, ci_95_pct)
              IN  ~IsNull(c) =>
                     /\ CellAt(df, r, lower_95_pct_ci) = CastDecimalFromString(BeforeFirstDash(Val(c)))
                     /\ CellAt(df, r, upper_95_pct_ci) =
                            IF HasDash(Val(c)) THEN CastDecimalFromString(AfterFirstDash(Val(c)))
                            ELSE None

\* A numeral: digits with at most one ".", one digit at least.
IsNumeral(u) ==
    /\ \A k \in DOMAIN u : IsDigit(u[k]) \/ u[k] = "."
    /\ Cardinality({k \in DOMAIN u : u[k] = "."}) <= 1
    /\ \E k \in DOMAIN u : IsDigit(u[k])

\* The value of a run of digits.
RECURSIVE DigitsValue(_)
DigitsValue(ds) ==
    IF ds = <<>> THEN 0
    ELSE 10 * DigitsValue(SubSeq(ds, 1, Len(ds) - 1)) + DigitVal(ds[Len(ds)])

WholePart(u) == DigitsValue(SubSeq(u, 1, FirstDot(u) - 1))
\* The j-th digit after the ".", 0 when there is none.
FracDigit(u, j) == IF FirstDot(u) + j <= Len(u) THEN DigitVal(u[FirstDot(u) + j]) ELSE 0

\* Numeral u is at most numeral v, as numbers.
NumeralLeq(u, v) ==
    \/ WholePart(u) < WholePart(v)
    \/ /\ WholePart(u) = WholePart(v)
       /\ \A j \in 1..(Len(u) + Len(v)) :
             (\A m \in 1..(j - 1) : FracDigit(u, m) = FracDigit(v, m))
                 => FracDigit(u, j) <= FracDigit(v, j)

\* The splitting cell has run, to its end or to a display that raised: the
\* cells before it have run and the interval column resolved.
Separated ==
    /\ plan = <<"group">>
    /\ pc \in {"transform", "error"}
    /\ Resolves(RenamedInput, ci_95_pct)

\* The decimal with one fractional digit of numeral u, in tenths: rounded
\* half up, NULL when it is more than 999.9.
NumeralDecimal(u) ==
    IF Len(StripZeros(SubSeq(u, 1, FirstDot(u) - 1))) > 3 THEN None
    ELSE LET tenths == 10 * WholePart(u) + FracDigit(u, 1)
                           + (IF FracDigit(u, 2) >= 5 THEN 1 ELSE 0)
         IN  IF tenths > MaxDecimal41 THEN None ELSE Some(tenths)

\* C3 amended: when the splitting cell has run the interval column is gone,
\* lower_95_pct_ci is the cast to decimal(4,1) of the text before the first
\* "-" and upper_95_pct_ci that of the text between the first "-" and the
\* second "-" (the end of the text when there is no second), NULL without
\* an error when there is no "-"; of a numeral the cast is its value
\* rounded to one fractional digit ("80.0-95.5" gives (80.0, 95.5) and
\* "80.0" gives (80.0, NULL)), and the cell's display raises exactly when
\* the cast of one of the two texts raises (as of "1e2147483647").
C3_SplitAtEveryDash ==
    Separated =>
        /\ \A k \in DOMAIN df.cols : df.cols[k] # ci_95_pct
        /\ \A r \in DOMAIN input.rows :
              LET c == LoadedCell(r, ci_95_pct)
                  lower == CellAt(df, r, lower_95_pct_ci)
                  upper == CellAt(df, r, upper_95_pct_ci)
              IN  IF IsNull(c) THEN IsNull(lower) /\ IsNull(upper)
                  ELSE LET first == BeforeFirstDash(Val(c))
                           second == BetweenDashes(Val(c))
                       IN  /\ lower = CastDecimalFromString(first)
                           /\ upper = IF HasDash(Val(c)) THEN CastDecimalFromString(second)
                                      ELSE None
                           /\ IsNumeral(Trim(first)) => lower = NumeralDecimal(Trim(first))
                           /\ HasDash(Val(c)) /\ IsNumeral(Trim(second))
                                 => upper = NumeralDecimal(Trim(second))
                           /\ Val(c) = Interval_80_955 => lower = Some(800) /\ upper = Some(955)
                           /\ Val(c) = Interval_80 => lower = Some(800) /\ upper = None
        /\ pc = "error" <=>
              \E r \in DOMAIN input.rows :
                  LET c == LoadedCell(r, ci_95_pct)
                  IN  /\ ~IsNull(c)
                      /\ \/ IsRaise(CastDecimalFromString(BeforeFirstDash(Val(c))))
                         \/ HasDash(Val(c)) /\ IsRaise(CastDecimalFromString(BetweenDashes(Val(c))))

\* The two examples of the claim, in two rows of one run.
C3_Witness ==
    /\ Separated
    /\ \E r \in DOMAIN input.rows :
          /\ LoadedCell(r, ci_95_pct) = Some(Interval_80_955)
          /\ CellAt(df, r, lower_95_pct_ci) = Some(800)
          /\ CellAt(df, r, upper_95_pct_ci) = Some(955)
    /\ \E r \in DOMAIN input.rows :
          /\ LoadedCell(r, ci_95_pct) = Some(Interval_80)
          /\ CellAt(df, r, lower_95_pct_ci) = Some(800)
          /\ CellAt(df, r, upper_95_pct_ci) = None

\* An interval text whose two numbers, the numeral before the first "-" and
\* the numeral between the first and the second, are in order.
OrderedInterval(s) ==
    LET a == Trim(BeforeFirstDash(s))
        b == Trim(BetweenDashes(s))
    IN  HasDash(s) /\ IsNumeral(a) /\ IsNumeral(b) /\ NumeralLeq(a, b)

\* C7 as claimed: in every row of the finished run, lower_95_pct_ci is at
\* most upper_95_pct_ci when neither is NULL.
C7_BoundsOrdered ==
    pc = "done" =>
        \A r \in DOMAIN df.rows :
            LET lower == CellAt(df, r, lower_95_pct_ci)
                upper == CellAt(df, r, upper_95_pct_ci)
            IN  ~IsNull(lower) /\ ~IsNull(upper) => Val(lower) <= Val(upper)

\* C7 amended: in every row of the finished run whose loaded interval has,
\* before its first "-" and between its first and second "-", two numerals
\* (digits with at most one ".", blanks around them aside) of which the
\* first is at most the second, lower_95_pct_ci is at most upper_95_pct_ci
\* when neither is NULL; nothing orders the bounds of another interval:
\* "5-1" comes out as lower 5.0 and upper 1.0.
C7_BoundsOrderedWhenInputIs ==
    pc = "done" =>
        \A r \in DOMAIN df.rows :
            LET c == LoadedCell(r, ci_95_pct)
                lower == CellAt(df, r, lower_95_pct_ci)
                upper == CellAt(df, r, upper_95_pct_ci)
            IN  /\ ~IsNull(c) /\ ~IsNull(lower) /\ ~IsNull(upper) /\ OrderedInterval(Val(c))
                      => Val(lower) <= Val(upper)
                /\ c = Some(<<"5", "-", "1">>) => lower = Some(50) /\ upper = Some(10)

C7_Witness ==
    /\ pc = "done"
    /\ \E r \in DOMAIN df.rows :
          /\ LoadedCell(r, ci_95_pct) = Some(<<"1", "-", "1", ".", "5">>)
          /\ OrderedInterval(<<"1", "-", "1", ".", "5">>)
          /\ CellAt(df, r, lower_95_pct_ci) = Some(10)
          /\ CellAt(df, r, upper_95_pct_ci) = Some(15)

(***************************************************************************)
(* The vaccine group.                                                      *)
(***************************************************************************)
\* What the claim says the group of vaccine text v is.
GroupOf(v) ==
    LET seps == {k \in DOMAIN v : OccursAt(v, SpaceDashSpace, k)}
        head == IF seps = {} THEN v
                ELSE SubSeq(v, 1, (CHOOSE k \in seps : \A j \in seps : k <= j) - 1)
    IN  IF Len(head) >= Len(MEN_C) /\ \A j \in DOMAIN MEN_C : head[j] = MEN_C[j] THEN MEN_C
        ELSE head

\* C4: in the finished run vaccine_group is the vaccine text before its
\* first " - " (all of it when there is none), or exactly MEN-C when that
\* starts with MEN-C; "HBV - Dose 1" and "HBV" give HBV, "MEN-C-ACYW135"
\* and "MEN-C - Dose 2" give MEN-C; the vaccine column is as loaded.
C4_VaccineGroup ==
    JustRan("group") =>
        \A r \in DOMAIN input.rows :
            LET v == LoadedCell(r, vaccine)
                g == CellAt(df, r, vaccine_group)
            IN  /\ CellAt(df, r, vaccine) = v
                /\ ~IsNull(v) => g = Some(GroupOf(Val(v)))
                /\ v = Some(HBV_Dose_1) => g = Some(HBV)
                /\ v = Some(HBV) => g = Some(HBV)
                /\ v = Some(MEN_C_ACYW135) => g = Some(MEN_C)
                /\ v = Some(MEN_C_Dose_2) => g = Some(MEN_C)

C4_Witness ==
    /\ JustRan("group")
    /\ \E r \in DOMAIN input.rows :
          LoadedCell(r, vaccine) = Some(MEN_C_ACYW135) /\ CellAt(df, r, vaccine_group) = Some(MEN_C)
    /\ \E r \in DOMAIN input.rows :
          LoadedCell(r, vaccine) = Some(HBV \o SpaceDashSpace \o MEN_C)
              /\ CellAt(df, r, vaccine_group) = Some(HBV)

(***************************************************************************)
(* Errors.                                                                 *)
(***************************************************************************)
\* The names the Transform cells read columns by.
ReferencedNames == {no_immunized, no_eligible, pct_coverage, ci_95_pct, vaccine}

\* How many columns bear name after header canonicalization.
Bearing(name) == Cardinality({k \in DOMAIN input.cols : CanonicalNames[k] = name})

\* Every referenced name resolves: exactly one column bears each of the
\* five, and at most one bears vaccine_group, which line 240 reads back.
AllResolve ==
    /\ \A name \in ReferencedNames : Bearing(name) = 1
    /\ Bearing(vaccine_group) <= 1

\* C8, its second sentence: when the columns the stages name are present,
\* each borne by one column, the run completes whatever the cells hold; a
\* run ends in an error only over its schema.
C8_CompletesForEveryCellValue == pc = "error" => ~AllResolve

(***************************************************************************)
(* The place of the grouping cell.                                         *)
(***************************************************************************)
\* The Transform cells with the grouping cell at each place after the
\* rename cells.
ReorderedPlans ==
    LET others == SubSeq(TransformCells, 1, Len(TransformCells) - 1)
        last == TransformCells[Len(TransformCells)]
    IN  {SubSeq(others, 1, k) \o <<last>> \o SubSeq(others, k + 1, Len(others)) :
            k \in 0..Len(others)}

InitReorder ==
    \/ SchemaInit(ReorderedPlans)
    \/ CoverageInit(ReorderedPlans)
    \/ VaccineInit(ReorderedPlans)

SpecReorder == InitReorder /\ [][Next]_vars

\* The result of the notebook order on the loaded DataFrame.
NotebookResult(ups) ==
    GroupVaccines(SeparateColumns(Rescale(Coerce(RenameColumns(input, CanonicalNames).df),
                                          [r \in DOMAIN input.rows |-> r \in ups])))

\* The cells of the columns of d named name, row by row.
ColumnsNamed(d, name) ==
    [r \in DOMAIN d.rows |-> Without(d.rows[r], {k \in DOMAIN d.cols : d.cols[k] # name}, 1)]

\* C9: wherever the grouping cell ran, a finished run has the column names
\* of the notebook order's result and, under every name, the same cells in
\* every row.
C9_GroupAnywhere ==
    pc = "done" =>
        \E ups \in SUBSET TieRows(RenamedInput) :
            LET result == NotebookResult(ups)
            IN  /\ Range(df.cols) = Range(result.cols)
                /\ Len(df.rows) = Len(result.rows)
                /\ \A name \in Range(result.cols) :
                      ColumnsNamed(df, name) = ColumnsNamed(result, name)

\* The grouping cell ran before the splitting cell: vaccine_group stands
\* before the bounds.
C9_Witness ==
    /\ pc = "done"
    /\ Len(input.cols) = Len(ExampleHeader)
    /\ df.cols[Len(df.cols)] = upper_95_pct_ci
    /\ \E r \in DOMAIN df.rows : CellAt(df, r, vaccine_group) = Some(MEN_C)

====
